---- MODULE Spec2Model ----
(***************************************************************************)
(* A model of the diceroller library (src/diceroller.go): the Extractor    *)
(* (Parse), the Simulator (RollOne, Roll, RollTotal, RollDetails), the     *)
(* Formatter (the Prettify functions) and the process-wide random          *)
(* generator the Simulator draws from.                                     *)
(*                                                                         *)
(* A Go string is a TLA+ string; the matcher works on its characters, the  *)
(* sequence Chars(s) of one-character strings.  A nil slice and an empty   *)
(* slice are both the empty sequence.  The error value nil is "nil".       *)
(***************************************************************************)
EXTENDS Integers, Sequences, FiniteSets, TLC

\* ------------------------------------------------------------------ bounds
\* Longest text of the exhaustive part of the Extractor's inputs.
MaxLen == 4
\* Most argument strings of one batch call (Roll, RollTotal, RollDetails).
MaxBatch == 2
\* The generator yields raw words 0 .. RawMax-1.
RawMax == 4
\* The generator's cycle: the number of raw words before it repeats.
StreamLen == 2

\* ------------------------------------------------------------- characters
DigitChars == {"0", "1", "2", "3", "4", "5", "6", "7", "8", "9"}

DigitVal(c) ==
    CASE c = "0" -> 0 [] c = "1" -> 1 [] c = "2" -> 2 [] c = "3" -> 3
      [] c = "4" -> 4 [] c = "5" -> 5 [] c = "6" -> 6 [] c = "7" -> 7
      [] c = "8" -> 8 [] c = "9" -> 9

\* The characters of a string, and the string of a sequence of characters.
Chars(str) == [i \in 1..Len(str) |-> SubSeq(str, i, i)]

RECURSIVE Str(_)
Str(cs) == IF cs = <<>> THEN "" ELSE Head(cs) \o Str(Tail(cs))

\* s[a..b] as a string, 1-based and inclusive; empty when b < a.
Slice(s, a, b) == Str([k \in 1..(b - a + 1) |-> s[a + k - 1]])

\* The character at 1-based position i, or "" past either end of s.
At(s, i) == IF i >= 1 /\ i <= Len(s) THEN s[i] ELSE ""

\* ------------------------------------------------------------ diceRollRegex
\* (\d{1,5})[dD](\d{1,5})([\+-]\d{1,5})?
MaxDigits == 5

\* \d{1,5} can match exactly n characters starting at position i.
DigitsAt(s, i, n) ==
    /\ n >= 1
    /\ n <= MaxDigits
    /\ \A k \in 0..(n - 1) : At(s, i + k) \in DigitChars

Largest(S) == CHOOSE x \in S : \A y \in S : y <= x

\* The lengths the first group can take at i so that [dD] and one digit of
\* the second group follow: the choices the matcher can succeed with.
CountLens(s, i) ==
    {n \in 1..MaxDigits :
        /\ DigitsAt(s, i, n)
        /\ At(s, i + n) \in {"d", "D"}
        /\ At(s, i + n + 1) \in DigitChars}

\* A variant of FacesLens without the limit of five digits.
FacesLensUncut(s, i) ==
    {n \in 1..Len(s) : \A k \in 0..(n - 1) : At(s, i + k) \in DigitChars}

FacesLens(s, i) == {n \in 1..MaxDigits : DigitsAt(s, i, n)}

\* A variant of ModLens that leaves alone digits that start another roll.
ModLensUnlessRoll(s, i) ==
    IF At(s, i) \in {"+", "-"}
    THEN {n \in 1..MaxDigits :
            DigitsAt(s, i + 1, n) /\ At(s, i + 1 + n) \notin {"d", "D"}}
    ELSE {}

ModLens(s, i) ==
    IF At(s, i) \in {"+", "-"}
    THEN {n \in 1..MaxDigits : DigitsAt(s, i + 1, n)}
    ELSE {}

\* The match of diceRollRegex anchored at position i: every quantifier is
\* greedy, so each group takes the longest run that lets the rest match.
\* An optional group that takes no part in the match is the empty string.
MatchAt(s, i) ==
    IF CountLens(s, i) = {}
    THEN [ok |-> FALSE, end |-> i, groups |-> <<>>]
    ELSE LET c == Largest(CountLens(s, i))
             f == Largest(FacesLens(s, i + c + 1))
             q == i + c + 1 + f
             m == IF ModLens(s, q) = {} THEN 0 ELSE 1 + Largest(ModLens(s, q))
         IN [ok |-> TRUE,
             end |-> q + m,
             groups |-> << Slice(s, i, q + m - 1),
                           Slice(s, i, i + c - 1),
                           Slice(s, i + c + 1, q - 1),
                           Slice(s, q, q + m - 1) >>]

\* The leftmost position >= from where diceRollRegex matches, 0 when none.
FirstMatchPos(s, from) ==
    LET P == {i \in from..Len(s) : MatchAt(s, i).ok}
    IN IF P = {} THEN 0 ELSE CHOOSE i \in P : \A j \in P : i <= j

\* diceRollRegex.FindStringSubmatch: the leftmost match with its three
\* groups, or nil (the empty sequence) when the string has no match.
FindStringSubmatch(str) ==
    LET s == Chars(str)
    IN IF FirstMatchPos(s, 1) = 0 THEN <<>>
       ELSE MatchAt(s, FirstMatchPos(s, 1)).groups

\* A variant of FindAllFrom that resumes one character after the start of
\* the previous match, so that matches may overlap.
RECURSIVE FindAllOverlapping(_, _)
FindAllOverlapping(s, from) ==
    LET p == FirstMatchPos(s, from)
    IN IF p = 0 THEN <<>>
       ELSE <<MatchAt(s, p).groups[1]>> \o FindAllOverlapping(s, p + 1)

\* The matches of s from position from on, each search resuming where the
\* previous match ended.
RECURSIVE FindAllFrom(_, _)
FindAllFrom(s, from) ==
    LET p == FirstMatchPos(s, from)
    IN IF p = 0 THEN <<>>
       ELSE <<MatchAt(s, p).groups[1]>> \o FindAllFrom(s, MatchAt(s, p).end)

\* diceRollRegex.FindAllString(s, -1): the successive non-overlapping matches.
FindAllString(str) == FindAllFrom(Chars(str), 1)

\* ------------------------------------------------------------ inputReplacer
Whitespace == {" ", "\t", "\n"}

\* A variant of IsKept whose replacer lacks the pair for the tab.
IsKeptOrTab(c) == c \notin {" ", "\n"}

IsKept(c) == c \notin Whitespace

\* inputReplacer.Replace: spaces, tabs and line endings replaced by nothing.
Replace(str) == Str(SelectSeq(Chars(str), IsKept))

\* A variant of parse that matches the string as given.
parseUnstripped(in) == FindAllString(in)

\* parse: the rolls found in one string.
parse(in) == FindAllString(Replace(in))

\* A variant of ParseLoop that puts each string's rolls before the earlier ones.
RECURSIVE ParseLoopPrepend(_, _, _)
ParseLoopPrepend(input, i, output) ==
    IF i > Len(input) THEN output
    ELSE ParseLoopPrepend(input, i + 1, parse(input[i]) \o output)

RECURSIVE ParseLoop(_, _, _)
ParseLoop(input, i, output) ==
    IF i > Len(input) THEN output
    ELSE ParseLoop(input, i + 1, output \o parse(input[i]))

\* ------------------------------------------------------------ strconv.Atoi
RECURSIVE DigitsValue(_, _)
DigitsValue(cs, n) ==
    IF cs = <<>> THEN n
    ELSE DigitsValue(Tail(cs), n * 10 + DigitVal(Head(cs)))

\* A variant of Atoi that takes digits only, no sign.
AtoiUnsigned(str) ==
    IF str = "" \/ \E k \in 1..Len(str) : SubSeq(str, k, k) \notin DigitChars
    THEN [n |-> 0, err |-> "strconv.Atoi: invalid syntax"]
    ELSE [n |-> DigitsValue(Chars(str), 0), err |-> "nil"]

\* strconv.Atoi on a string of fewer than 19 characters (every group of the
\* regex has at most 6): an optional sign, then decimal digits only.
Atoi(str) ==
    LET s0 == Chars(str)
        signed == s0 # <<>> /\ Head(s0) \in {"+", "-"}
        s == IF signed THEN Tail(s0) ELSE s0
    IN IF s = <<>> \/ \E k \in 1..Len(s) : s[k] \notin DigitChars
       THEN [n |-> 0, err |-> "strconv.Atoi: invalid syntax"]
       ELSE [n |-> IF s0[1] = "-" THEN 0 - DigitsValue(s, 0) ELSE DigitsValue(s, 0),
             err |-> "nil"]

\* ------------------------------------------------------------------ random
\* The generator is the cycle of raw words it will yield, next word first.
Seeds == [1..StreamLen -> 0..(RawMax - 1)]

\* A variant of IntN whose generator does not advance.
IntNStuck(rnd, n) ==
    IF n <= 0
    THEN [panic |-> TRUE, v |-> 0, random |-> rnd]
    ELSE [panic |-> FALSE, v |-> (Head(rnd) * n) \div RawMax, random |-> rnd]

\* random.IntN(n): panics when n <= 0; otherwise takes the next raw word,
\* scales it into [0, n) and advances the generator.
IntN(rnd, n) ==
    IF n <= 0
    THEN [panic |-> TRUE, v |-> 0, random |-> rnd]
    ELSE [panic |-> FALSE,
          v |-> (Head(rnd) * n) \div RawMax,
          random |-> Tail(rnd) \o <<Head(rnd)>>]

\* --------------------------------------------------------------- DiceRoll
ZeroDiceRoll ==
    [DiscoveredRoll |-> "", Faces |-> 0, Rolls |-> 0, Modifier |-> 0,
     Results |-> <<>>, Total |-> 0]

\* The loop of roll that simulates the dice: one IntN(Faces) per die.
\* asked records the bound of every IntN call made, in order.
RECURSIVE RollDice(_, _, _, _)
RollDice(output, times, rnd, asked) ==
    IF times >= output.Rolls
    THEN [panic |-> "none", output |-> output, random |-> rnd, asked |-> asked]
    ELSE LET d == IntN(rnd, output.Faces)
             rolled == d.v + 1
         IN IF d.panic
            THEN [panic |-> "invalid argument to IntN", output |-> output,
                  random |-> rnd, asked |-> Append(asked, output.Faces)]
            ELSE RollDice([output EXCEPT !.Results[times + 1] = rolled,
                                         !.Total = @ + rolled],
                          times + 1, d.random, Append(asked, output.Faces))

\* roll returning out and e before any die is rolled.
Quiet(out, e, rnd) ==
    [panic |-> "none", output |-> out, err |-> e, random |-> rnd, asked |-> <<>>]

\* A variant of rollDice that leaves the modifier out of the total.
rollDiceNoModifier(o3, rnd) ==
    LET dice == RollDice([o3 EXCEPT !.Results = [k \in 1..o3.Rolls |-> 0]],
                         0, rnd, <<>>)
    IN [panic |-> dice.panic, output |-> dice.output, err |-> "nil",
        random |-> dice.random, asked |-> dice.asked]

\* A variant of rollDice that rolls one die when the count is 0.
rollDiceAtLeastOne(o3, rnd) ==
    LET n == IF o3.Rolls = 0 THEN 1 ELSE o3.Rolls
        dice == RollDice([o3 EXCEPT !.Rolls = n, !.Results = [k \in 1..n |-> 0]],
                         0, rnd, <<>>)
    IN [panic |-> dice.panic,
        output |-> [dice.output EXCEPT !.Total = @ + dice.output.Modifier],
        err |-> "nil", random |-> dice.random, asked |-> dice.asked]

\* roll from "Pre-allocate the Rolls slice" on: the dice, then the modifier.
rollDice(o3, rnd) ==
    LET dice == RollDice([o3 EXCEPT !.Results = [k \in 1..o3.Rolls |-> 0]],
                         0, rnd, <<>>)
    IN IF dice.panic # "none"
       THEN [panic |-> dice.panic, output |-> dice.output, err |-> "nil",
             random |-> dice.random, asked |-> dice.asked]
       ELSE [panic |-> "none",
             output |-> [dice.output EXCEPT !.Total = @ + dice.output.Modifier],
             err |-> "nil", random |-> dice.random, asked |-> dice.asked]

\* roll from the conversion of the modifier on.
rollModifier(result, o2, rnd) ==
    LET modifier == Atoi(result[4])
    IN IF Len(result[4]) > 0
       THEN IF modifier.err # "nil"
            THEN Quiet([o2 EXCEPT !.Modifier = modifier.n], modifier.err, rnd)
            ELSE rollDice([o2 EXCEPT !.Modifier = modifier.n], rnd)
       ELSE rollDice(o2, rnd)

\* roll from the conversion of the faces on.
rollFaces(result, o1, rnd) ==
    LET faces == Atoi(result[3])
    IN IF faces.err # "nil"
       THEN Quiet([o1 EXCEPT !.Faces = faces.n], faces.err, rnd)
       ELSE rollModifier(result, [o1 EXCEPT !.Faces = faces.n], rnd)

\* roll from the conversion of the rolls on.
rollRolls(result, o0, rnd) ==
    LET rolls == Atoi(result[2])
    IN IF rolls.err # "nil"
       THEN Quiet([o0 EXCEPT !.Rolls = rolls.n], rolls.err, rnd)
       ELSE rollFaces(result, [o0 EXCEPT !.Rolls = rolls.n], rnd)

\* A variant of roll that reports the string it was given as DiscoveredRoll.
rollEchoesInput(input, rnd) ==
    LET result == FindStringSubmatch(input)
    IN IF result = <<>>
       THEN [panic |-> "index out of range", output |-> ZeroDiceRoll,
             err |-> "nil", random |-> rnd, asked |-> <<>>]
       ELSE rollRolls(result, [ZeroDiceRoll EXCEPT !.DiscoveredRoll = input], rnd)

\* A variant of roll that rebuilds DiscoveredRoll from the groups, with "d".
rollNormalised(input, rnd) ==
    LET result == FindStringSubmatch(input)
    IN IF result = <<>>
       THEN [panic |-> "index out of range", output |-> ZeroDiceRoll,
             err |-> "nil", random |-> rnd, asked |-> <<>>]
       ELSE rollRolls(result,
                      [ZeroDiceRoll EXCEPT !.DiscoveredRoll =
                          result[2] \o "d" \o result[3] \o result[4]],
                      rnd)

\* roll: one string in, the DiceRoll and the error out; or a panic.
roll(input, rnd) ==
    LET result == FindStringSubmatch(input)
    IN IF result = <<>>
       THEN \* result[0] of a nil slice
            [panic |-> "index out of range", output |-> ZeroDiceRoll,
             err |-> "nil", random |-> rnd, asked |-> <<>>]
       ELSE rollRolls(result, [ZeroDiceRoll EXCEPT !.DiscoveredRoll = result[1]],
                      rnd)

\* RollOne's return statement: roll.Total, err.
TotalOf(r) == [r EXCEPT !.output = r.output.Total]

\* The loop of Roll: the totals so far, until a roll fails.
RECURSIVE RollLoop(_, _, _, _, _)
\* Its body after dr, err = roll(in), which gave r.
RollBody(input, i, output, asked, r) ==
    IF r.panic # "none" \/ r.err # "nil"
    THEN [panic |-> r.panic, output |-> output, err |-> r.err,
          random |-> r.random, asked |-> asked \o r.asked]
    ELSE RollLoop(input, i + 1, Append(output, r.output.Total), r.random,
             asked \o r.asked)

RollLoop(input, i, output, rnd, asked) ==
    IF i > Len(input)
    THEN [panic |-> "none", output |-> output, err |-> "nil", random |-> rnd,
          asked |-> asked]
    ELSE RollBody(input, i, output, asked, roll(input[i], rnd))

\* The loop of RollTotal: the sum so far, until a roll fails.
RECURSIVE RollTotalLoop(_, _, _, _, _)
\* Its body after dr, err = roll(in), which gave r.
RollTotalBody(input, i, output, asked, r) ==
    IF r.panic # "none" \/ r.err # "nil"
    THEN [panic |-> r.panic, output |-> output, err |-> r.err,
          random |-> r.random, asked |-> asked \o r.asked]
    ELSE RollTotalLoop(input, i + 1, output + r.output.Total, r.random,
             asked \o r.asked)

RollTotalLoop(input, i, output, rnd, asked) ==
    IF i > Len(input)
    THEN [panic |-> "none", output |-> output, err |-> "nil", random |-> rnd,
          asked |-> asked]
    ELSE RollTotalBody(input, i, output, asked, roll(input[i], rnd))

\* The loop of RollDetails: the DiceRolls so far, until a roll fails.
RECURSIVE RollDetailsLoop(_, _, _, _, _)
\* Its body after dr, err = roll(in), which gave r.
RollDetailsBody(input, i, output, asked, r) ==
    IF r.panic # "none" \/ r.err # "nil"
    THEN [panic |-> r.panic, output |-> output, err |-> r.err,
          random |-> r.random, asked |-> asked \o r.asked]
    ELSE RollDetailsLoop(input, i + 1, Append(output, r.output), r.random,
             asked \o r.asked)

RollDetailsLoop(input, i, output, rnd, asked) ==
    IF i > Len(input)
    THEN [panic |-> "none", output |-> output, err |-> "nil", random |-> rnd,
          asked |-> asked]
    ELSE RollDetailsBody(input, i, output, asked, roll(input[i], rnd))

\* -------------------------------------------------------------- the Formatter
DigitStr(d) == SubSeq("0123456789", d + 1, d + 1)

\* The decimal digits of a natural number, most significant first.
RECURSIVE FormatBits(_)
FormatBits(u) ==
    IF u < 10 THEN DigitStr(u) ELSE FormatBits(u \div 10) \o DigitStr(u % 10)

\* strconv.Itoa, and the verb %d of fmt.Sprintf.
Itoa(i) == IF i < 0 THEN "-" \o FormatBits(0 - i) ELSE FormatBits(i)

\* math.Abs(float64(i)) under the verb %.0f: the conversion is exact below
\* 2^53, so the digits are those of the absolute value.
FormatAbs(i) == FormatBits(IF i < 0 THEN 0 - i ELSE i)

UpperChars == "ABCDEFGHIJKLMNOPQRSTUVWXYZ"

LowerChars == "abcdefghijklmnopqrstuvwxyz"

ToLowerChar(c) ==
    IF \E k \in 1..Len(UpperChars) : SubSeq(UpperChars, k, k) = c
    THEN LET k == CHOOSE j \in 1..Len(UpperChars) : SubSeq(UpperChars, j, j) = c
         IN SubSeq(LowerChars, k, k)
    ELSE c

\* strings.ToLower on ASCII text.
ToLower(str) == Str([i \in 1..Len(str) |-> ToLowerChar(SubSeq(str, i, i))])

\* strings.Join.
RECURSIVE Join(_, _)
Join(elems, sep) ==
    IF elems = <<>> THEN ""
    ELSE IF Len(elems) = 1 THEN elems[1]
    ELSE elems[1] \o sep \o Join(Tail(elems), sep)

\* strings.Index, 1-based: the first place where sep stands in s, or 0.
Index(s, sep) ==
    LET P == {i \in 1..(Len(s) - Len(sep) + 1) : SubSeq(s, i, i + Len(sep) - 1) = sep}
    IN IF P = {} THEN 0 ELSE CHOOSE i \in P : \A j \in P : i <= j

\* strings.Split with a non-empty separator: s cut at every sep.
RECURSIVE Split(_, _)
Split(s, sep) ==
    IF Index(s, sep) = 0 THEN <<s>>
    ELSE <<SubSeq(s, 1, Index(s, sep) - 1)>>
         \o Split(SubSeq(s, Index(s, sep) + Len(sep), Len(s)), sep)

\* The "total += v" of prettify's loop.
RECURSIVE SumResults(_)
SumResults(rs) == IF rs = <<>> THEN 0 ELSE Head(rs) + SumResults(Tail(rs))

\* A variant of prettifyPrefix that echoes the discovered roll as written.
prettifyPrefixAsWritten(input, full) ==
    IF full THEN input.DiscoveredRoll \o ": " ELSE ""

\* prettify, "if full": the lowercased discovered roll and a colon.
prettifyPrefix(input, full) ==
    IF full THEN ToLower(input.DiscoveredRoll) \o ": " ELSE ""

\* prettify, the loop and the Join: every result in decimal, " + " between.
prettifyRolls(input) ==
    Join([i \in 1..Len(input.Results) |-> Itoa(input.Results[i])], " + ")

\* A variant of prettifyModifier that prints the modifier with %d alone.
prettifyModifierPlain(input) ==
    IF input.Modifier # 0 THEN " (" \o Itoa(input.Modifier) \o ")" ELSE ""

\* prettify, the switch on the modifier.
prettifyModifier(input) ==
    IF input.Modifier > 0 THEN " (+" \o Itoa(input.Modifier) \o ")"
    ELSE IF input.Modifier < 0 THEN " (-" \o FormatAbs(input.Modifier) \o ")"
    ELSE ""

\* prettify, the last if: the total is that of the results, summed again.
prettifyTotal(input) ==
    IF Len(input.Results) > 1 \/ input.Modifier # 0
    THEN " = " \o Itoa(SumResults(input.Results) + input.Modifier)
    ELSE ""

prettify(input, full) ==
    prettifyPrefix(input, full) \o prettifyRolls(input)
        \o prettifyModifier(input) \o prettifyTotal(input)

\* A variant of PrettifyEach that appends to the slice it made.
PrettifyAppend(input, full) ==
    [i \in 1..Len(input) |-> ""] \o [i \in 1..Len(input) |-> prettify(input[i], full)]

\* The loop of Prettify and PrettifyFull: output[i] = prettify(in, full).
PrettifyEach(input, full) == [i \in 1..Len(input) |-> prettify(input[i], full)]

\* The body of addHTML's loop for one string.
addHTMLOne(in) ==
    IF Len(Split(in, ": ")) = 1
    THEN "<strong>" \o Split(in, ": ")[1] \o "</strong>"
    ELSE "<strong>" \o Split(in, ": ")[1] \o ":</strong> <em>"
         \o Split(in, ": ")[2] \o "</em>"

addHTML(input) == [i \in 1..Len(input) |-> addHTMLOne(input[i])]

\* ------------------------------------------------------------------ state
VARIABLES
    pc,       \* "idle", "returned" (a call came back) or "panicked" (aborted)
    op,       \* the operation of the last call, "none" before any
    input,    \* its arguments, a sequence of strings
    total,    \* the int returned by RollOne or RollTotal
    totals,   \* the []int returned by Roll
    details,  \* the []DiceRoll returned by RollDetails
    tokens,   \* the []string returned by Parse
    err,      \* the error returned, "nil" for none
    fault,    \* the panic that aborted the call, "none" for none
    random,   \* the process-wide generator
    asked,    \* the bounds passed to random.IntN during the last call, in order
    records,  \* the DiceRolls handed to the last Formatter call, as it left them
    pretty,   \* the strings the Formatter returned
    threads   \* the goroutines that call the Simulator at the same time

vars ==
    <<pc, op, input, total, totals, details, tokens, err, fault, random, asked,
      records, pretty, threads>>

\* --------------------------------------------------------------- the inputs
\* All sequences over S of length 0 .. n.
SeqsUpTo(S, n) == UNION {[1..k -> S] : k \in 0..n}

\* Strings handed to the Simulator one at a time.
RollTexts ==
    {"2d4", "1d4", "1d1", "3d2", "2d3+1", "2D4-3", "4d4+4", "10d2+10", "00002d4",
     "0d6", "0d6+3", "0d6-2", "00d4", "0d0", "2d0", "1d00000", "2d0+5",
     "", "hello", "2 d 6", "d6", "2d", "4d8/2", "roll 2d4 now", "x1d4-0",
     "2d2+2d4", "1d2,3d4", "2d4+", "3d0 2d4", "0d0 2d4", "0d99999-99999"}

\* Strings a batch call is made of.
BatchTokens == {"2d4", "0d6-2", "2d0", "hello"}

Batches == SeqsUpTo(BatchTokens, MaxBatch) \cup {<<t>> : t \in RollTexts}

\* Texts for the Extractor: the examples of the documentation and the tests.
ParseExamples ==
    {"2d6", "2 d 6", "2\td\t6", "2\nd\n6", "2\nd\n 6", "2D6 and 2 D 8",
     "roll a 2d6 and 2 d 8 please", "roll 2 d 6 + 2", "then roll 2 d 8 - 3",
     "0d6", "try rolling 99999d99999?", "2\td\t6\t+\t2", "2\nd\n6\n+\n2 ",
     "1d6 2d8", "1d6, 2d8", "1d6 and 2d8", "roll 4d6 +4 please", "and 1d6",
     "So 1d6 +2 of something and 2d8-3 harmless and 3D12+0 whatever of 8d10+20 nope.",
     "123456d6", "2d123456", "2d6+123456", "2d6+2d8", "2d6 + 2d8", "4d8/2",
     "2d6+-1", "2d+6", "d6d6", "1d2d3d4", "12d34+56-7d8"}

Alphabet == {"2", "d", "D", "+", "-", " ", "\t", "/"}

\* Every text of at most MaxLen characters over Alphabet.
AllTexts == {Str(cs) : cs \in SeqsUpTo(Alphabet, MaxLen)}

ParseTokens == {"2d6", "2 D 8-3", "1d6 2d8", "hello", "2d", "6+1"}

ParseBatches == SeqsUpTo(ParseTokens, MaxBatch)

\* Two short rolls with only whitespace between them, or something else.
ShortRolls == {"1d6", "2d8", "2D4"}

Gaps == {" ", "\t", "\n", "  ", " \t\n"}

Separators == {", ", " and ", ",", "/", " or\t"}

PairTexts == {x \o g \o y : x \in ShortRolls, y \in ShortRolls, g \in Gaps \cup Separators}

\* One roll and nothing else, its numbers written with up to seven digits.
CountRuns == {"2", "12345", "123456", "1234567"}

FacesRuns == {"6", "12345", "123456", "7654321"}

ModRuns == {"", "+3", "-12345", "-123456", "+1234567"}

LongRunTexts ==
    {c \o d \o f \o m : c \in CountRuns, d \in {"d", "D"}, f \in FacesRuns,
                         m \in ModRuns}

\* Two one-digit rolls joined by a sign, written tight or with spaces.
JoinDigits == {"0", "2", "9"}

JoinedTexts ==
    {a \o d \o b \o s \o c \o d \o e :
        a \in JoinDigits, b \in JoinDigits, c \in JoinDigits, e \in JoinDigits,
        d \in {"d", "D"}, s \in {"+", "-", " + ", " - "}}

ParseSingles ==
    {<<t>> : t \in AllTexts \cup ParseExamples \cup PairTexts \cup LongRunTexts
                    \cup JoinedTexts}

\* The goroutines of a concurrent caller, and one that has not called yet.
Threads == {1, 2}

IdleThread == [pc |-> "idle", input |-> "", output |-> ZeroDiceRoll, times |-> 0,
               seen |-> <<>>]

\* ------------------------------------------------------------------- Init
Init ==
    /\ pc = "idle"
    /\ op = "none"
    /\ input = <<>>
    /\ total = 0
    /\ totals = <<>>
    /\ details = <<>>
    /\ tokens = <<>>
    /\ err = "nil"
    /\ fault = "none"
    /\ random \in Seeds
    /\ asked = <<>>
    /\ records = <<>>
    /\ pretty = <<>>
    /\ threads = [t \in Threads |-> IdleThread]

\* The call o(ins) ended as r: it came back with r.output and r.err, or it
\* panicked and delivered nothing.
Ended(o, ins, r) ==
    /\ op' = o
    /\ input' = ins
    /\ pc' = IF r.panic # "none" THEN "panicked" ELSE "returned"
    /\ fault' = r.panic
    /\ err' = IF r.panic # "none" THEN "nil" ELSE r.err
    /\ random' = r.random
    /\ asked' = r.asked
    /\ total' = IF o \in {"RollOne", "RollTotal"} /\ r.panic = "none"
                THEN r.output ELSE 0
    /\ totals' = IF o = "Roll" /\ r.panic = "none" THEN r.output ELSE <<>>
    /\ details' = IF o = "RollDetails" /\ r.panic = "none" THEN r.output ELSE <<>>
    /\ tokens' = IF o = "Parse" THEN r.output ELSE <<>>
    /\ records' = <<>>
    /\ pretty' = <<>>
    /\ UNCHANGED threads

\* ---------------------------------------------------------------- actions
RollOne ==
    /\ pc = "idle"
    /\ \E in \in RollTexts :
         Ended("RollOne", <<in>>, TotalOf(roll(in, random)))

Roll ==
    /\ pc = "idle"
    /\ \E ins \in Batches :
         Ended("Roll", ins, RollLoop(ins, 1, <<>>, random, <<>>))

RollTotal ==
    /\ pc = "idle"
    /\ \E ins \in Batches :
         Ended("RollTotal", ins, RollTotalLoop(ins, 1, 0, random, <<>>))

RollDetails ==
    /\ pc = "idle"
    /\ \E ins \in Batches :
         Ended("RollDetails", ins, RollDetailsLoop(ins, 1, <<>>, random, <<>>))

\* Parse called with the strings texts: it always returns, with a nil error.
ParseCall(texts) ==
    /\ Ended("Parse", texts,
             [panic |-> "none", output |-> ParseLoop(texts, 1, <<>>),
              err |-> "nil", random |-> random, asked |-> <<>>])

Parse ==
    /\ pc = "idle"
    /\ \E texts \in ParseBatches : ParseCall(texts)

\* Parse called with one text.
ParseText ==
    /\ pc = "idle"
    /\ \E texts \in ParseSingles : ParseCall(texts)

\* The caller takes the result of a call that came back; the library is idle
\* again and keeps nothing but its generator.
Return ==
    /\ pc = "returned"
    /\ pc' = "idle"
    /\ op' = "none"
    /\ input' = <<>>
    /\ total' = 0
    /\ totals' = <<>>
    /\ details' = <<>>
    /\ tokens' = <<>>
    /\ err' = "nil"
    /\ asked' = <<>>
    /\ records' = <<>>
    /\ pretty' = <<>>
    /\ UNCHANGED <<fault, random, threads>>

Next == RollOne \/ Roll \/ RollTotal \/ RollDetails \/ Parse \/ Return

Spec == Init /\ [][Next]_vars

\* The Extractor alone, on every short text: the generator plays no part, so
\* it starts from one seed.
InitParse ==
    /\ Init
    /\ random = [k \in 1..StreamLen |-> 0]

NextParse == Parse \/ ParseText \/ Return

SpecParse == InitParse /\ [][NextParse]_vars

\* ------------------------------------------------- the pipeline, end to end
\* A DiceRoll literal, its fields in the order of the struct.
DiceRoll(discovered, faces, rolls, modifier, results, sum) ==
    [DiscoveredRoll |-> discovered, Faces |-> faces, Rolls |-> rolls,
     Modifier |-> modifier, Results |-> results, Total |-> sum]

\* Slices of DiceRoll a caller writes down itself: those of the tests, and
\* others with a single die, a caption before the roll, and extreme modifiers.
RecordLiterals ==
    {<<DiceRoll("2d6", 6, 2, 0, <<1, 2>>, 3),
       DiceRoll("4d4+4", 4, 4, 4, <<3, 2, 3, 4>>, 16)>>,
     <<DiceRoll("1d4-1", 1, 4, 0 - 1, <<2>>, 1)>>,
     <<DiceRoll("1d6", 6, 1, 0, <<6>>, 6)>>,
     <<DiceRoll("1D20", 20, 1, 0, <<19>>, 19),
       DiceRoll("3D6-2", 6, 3, 0 - 2, <<3, 6, 3>>, 10)>>,
     <<DiceRoll("Fire: 2D6", 6, 2, 0, <<1, 2>>, 3)>>,
     <<DiceRoll("to hit: 1d20", 20, 1, 0, <<6>>, 6),
       DiceRoll("2d6", 6, 2, 0, <<1, 2>>, 3)>>,
     <<DiceRoll("1d2+99999", 2, 1, 99999, <<1>>, 100000)>>,
     <<DiceRoll("2d2-99999", 2, 2, 0 - 99999, <<2, 1>>, 0 - 99996)>>,
     <<>>}

\* Argument lists for Parse whose rolls are then simulated and shown.
ShowTexts ==
    {<<"Roll 4d6 +4 and 8 D4 please.", "roll 4 d4 and 4 d6", "1d20+3">>,
     <<"3d6-2", "4d8/2">>,
     <<"1d20", "3d6-2">>,
     <<"2D6 and 2 D 8">>,
     <<"1d6 2d8">>,
     <<"0d6">>,
     <<"0d6+3, 0D4, 1d1">>,
     <<"1d4+0", "1d4-0">>,
     <<"1d2+99999", "2D2-99999">>,
     <<"00002d00004">>,
     <<"2d0, 1d4">>,
     <<"1d4 or 0d0">>,
     <<"hello">>,
     <<>>}

ParseShown ==
    /\ pc = "idle"
    /\ \E texts \in ShowTexts : ParseCall(texts)

\* RollDetails(parsed...): the caller hands over what Parse returned.
RollParsed ==
    /\ pc = "returned"
    /\ op = "Parse"
    /\ Ended("RollDetails", tokens, RollDetailsLoop(tokens, 1, <<>>, random, <<>>))

\* The caller writes a slice of DiceRoll down; the library takes no part.
Literal ==
    /\ pc = "idle"
    /\ \E recs \in RecordLiterals : details' = recs
    /\ pc' = "built"
    /\ op' = "literal"
    /\ UNCHANGED <<input, total, totals, tokens, err, fault, random, asked,
                   records, pretty, threads>>

\* The caller holds a slice of DiceRoll in details.
HasRecords == (pc = "returned" /\ op = "RollDetails") \/ pc = "built"

\* The Formatter call o(args) came back with out: it reads its arguments and
\* writes nothing but its own output.
Shown(o, args, out) ==
    /\ op' = o
    /\ pc' = "returned"
    /\ records' = args
    /\ pretty' = out
    /\ UNCHANGED <<input, total, totals, details, tokens, err, fault, random,
                   asked, threads>>

Prettify ==
    /\ HasRecords
    /\ Shown("Prettify", details, PrettifyEach(details, FALSE))

PrettifyFull ==
    /\ HasRecords
    /\ Shown("PrettifyFull", details, PrettifyEach(details, TRUE))

PrettifyOne ==
    /\ HasRecords
    /\ \E i \in 1..Len(details) :
         Shown("PrettifyOne", <<details[i]>>, <<prettify(details[i], FALSE)>>)

PrettifyOneFull ==
    /\ HasRecords
    /\ \E i \in 1..Len(details) :
         Shown("PrettifyOneFull", <<details[i]>>, <<prettify(details[i], TRUE)>>)

PrettifyHTML ==
    /\ HasRecords
    /\ Shown("PrettifyHTML", details, addHTML(PrettifyEach(details, FALSE)))

PrettifyHTMLFull ==
    /\ HasRecords
    /\ Shown("PrettifyHTMLFull", details, addHTML(PrettifyEach(details, TRUE)))

NextShow ==
    \/ ParseShown \/ RollParsed \/ Literal
    \/ Prettify \/ PrettifyFull \/ PrettifyOne \/ PrettifyOneFull
    \/ PrettifyHTML \/ PrettifyHTMLFull
    \/ Return

SpecShow == Init /\ [][NextShow]_vars

\* ------------------------------------------- the Simulator on a known seed
\* The dice the tests' seeded generator rolls for "2d6" and "4d4+4", and the
\* number of faces each was rolled for.
TestDraws == <<1, 2, 3, 2, 3, 4>>

TestFaces == <<6, 6, 4, 4, 4, 4>>

\* A raw word that IntN(n) scales to the draw v.
RawFor(v, n) == CHOOSE w \in 0..(RawMax - 1) : (w * n) \div RawMax = v - 1

\* The generator of the tests: the cycle of words that yields TestDraws.
TestSeed == [k \in 1..Len(TestDraws) |-> RawFor(TestDraws[k], TestFaces[k])]

OrderTokens == {"2d6", "4d4+4", "1d4-1", "0d6+3"}

OrderBatches == SeqsUpTo(OrderTokens, MaxBatch)

InitOrder ==
    /\ pc = "idle"
    /\ op = "none"
    /\ input = <<>>
    /\ total = 0
    /\ totals = <<>>
    /\ details = <<>>
    /\ tokens = <<>>
    /\ err = "nil"
    /\ fault = "none"
    /\ random \in Seeds \cup {TestSeed}
    /\ asked = <<>>
    /\ records = <<>>
    /\ pretty = <<>>
    /\ threads = [t \in Threads |-> IdleThread]

RollOneSeeded ==
    /\ pc = "idle"
    /\ \E in \in OrderTokens :
         Ended("RollOne", <<in>>, TotalOf(roll(in, random)))

RollSeeded ==
    /\ pc = "idle"
    /\ \E ins \in OrderBatches :
         Ended("Roll", ins, RollLoop(ins, 1, <<>>, random, <<>>))

RollTotalSeeded ==
    /\ pc = "idle"
    /\ \E ins \in OrderBatches :
         Ended("RollTotal", ins, RollTotalLoop(ins, 1, 0, random, <<>>))

RollDetailsSeeded ==
    /\ pc = "idle"
    /\ \E ins \in OrderBatches :
         Ended("RollDetails", ins, RollDetailsLoop(ins, 1, <<>>, random, <<>>))

NextOrder ==
    RollOneSeeded \/ RollSeeded \/ RollTotalSeeded \/ RollDetailsSeeded \/ Return

SpecOrder == InitOrder /\ [][NextOrder]_vars

\* ------------------------------------------------ goroutines calling at once
\* Each goroutine of Threads calls RollOne once.  roll works on its own
\* locals except for random, which all goroutines share without a lock; a
\* draw reads the generator's state and later writes the advanced state back,
\* and the scheduler may run another goroutine between any two steps.
RaceTokens == {"2d4", "1d3+1", "0d6", "2d0", "hello"}

\* roll up to "Pre-allocate the Rolls slice": the match and the conversions.
rollPrelude(in) ==
    LET result == FindStringSubmatch(in)
    IN IF result = <<>>
       THEN [pc |-> "panicked", input |-> in, output |-> ZeroDiceRoll,
             times |-> 0, seen |-> <<>>]
       ELSE IF Atoi(result[2]).err # "nil" \/ Atoi(result[3]).err # "nil"
               \/ (Len(result[4]) > 0 /\ Atoi(result[4]).err # "nil")
       THEN [pc |-> "returned", input |-> in,
             output |-> [ZeroDiceRoll EXCEPT !.DiscoveredRoll = result[1]],
             times |-> 0, seen |-> <<>>]
       ELSE [pc |-> "loop", input |-> in,
             output |-> [DiscoveredRoll |-> result[1],
                         Faces |-> Atoi(result[3]).n,
                         Rolls |-> Atoi(result[2]).n,
                         Modifier |-> IF Len(result[4]) > 0
                                      THEN Atoi(result[4]).n ELSE 0,
                         Results |-> [k \in 1..Atoi(result[2]).n |-> 0],
                         Total |-> 0],
             times |-> 0, seen |-> <<>>]

\* Goroutine t calls RollOne(in) and runs roll up to its loop.
Call(t) ==
    /\ threads[t].pc = "idle"
    /\ \E in \in RaceTokens : threads' = [threads EXCEPT ![t] = rollPrelude(in)]
    /\ UNCHANGED <<pc, op, input, total, totals, details, tokens, err, fault,
                   random, asked, records, pretty>>

\* Goroutine t enters random.IntN(output.Faces): a panic for no faces,
\* otherwise it reads the generator's state.
Enter(t) ==
    /\ threads[t].pc = "loop"
    /\ threads[t].times < threads[t].output.Rolls
    /\ threads' = [threads EXCEPT ![t] =
                      IF threads[t].output.Faces <= 0
                      THEN [@ EXCEPT !.pc = "panicked"]
                      ELSE [@ EXCEPT !.pc = "drawing", !.seen = random]]
    /\ UNCHANGED <<pc, op, input, total, totals, details, tokens, err, fault,
                   random, asked, records, pretty>>

\* Goroutine t leaves random.IntN: it writes the state it read, advanced by
\* one word, and keeps the word scaled as its die.
Leave(t) ==
    /\ threads[t].pc = "drawing"
    /\ random' = IntN(threads[t].seen, threads[t].output.Faces).random
    /\ threads' = [threads EXCEPT ![t] =
          [@ EXCEPT !.pc = "loop",
                    !.seen = <<>>,
                    !.times = @ + 1,
                    !.output.Results[threads[t].times + 1] =
                        IntN(threads[t].seen, threads[t].output.Faces).v + 1,
                    !.output.Total =
                        @ + IntN(threads[t].seen, threads[t].output.Faces).v + 1]]
    /\ UNCHANGED <<pc, op, input, total, totals, details, tokens, err, fault,
                   asked, records, pretty>>

\* Goroutine t is through the loop: the modifier is added and roll returns.
Finish(t) ==
    /\ threads[t].pc = "loop"
    /\ threads[t].times >= threads[t].output.Rolls
    /\ threads' = [threads EXCEPT ![t] =
          [@ EXCEPT !.pc = "returned",
                    !.output.Total = @ + threads[t].output.Modifier]]
    /\ UNCHANGED <<pc, op, input, total, totals, details, tokens, err, fault,
                   random, asked, records, pretty>>

NextRace == \E t \in Threads : Call(t) \/ Enter(t) \/ Leave(t) \/ Finish(t)

SpecRace == Init /\ [][NextRace]_vars

\* ==================================================================== claims
\* The grammar of a roll token, stated on its own: 1 to 5 digits, d or D,
\* 1 to 5 digits, and optionally a sign with 1 to 5 digits.
AllDigitChars(cs, a, b) == \A k \in a..b : cs[k] \in DigitChars

TokenShape(cs) ==
    \E c \in 1..MaxDigits :
        /\ c + 2 <= Len(cs)
        /\ cs[c + 1] \in {"d", "D"}
        /\ AllDigitChars(cs, 1, c)
        /\ \E f \in 1..MaxDigits :
            /\ c + 1 + f <= Len(cs)
            /\ AllDigitChars(cs, c + 2, c + 1 + f)
            /\ \/ Len(cs) = c + 1 + f
               \/ /\ Len(cs) >= c + f + 3
                  /\ Len(cs) <= c + f + 2 + MaxDigits
                  /\ cs[c + f + 2] \in {"+", "-"}
                  /\ AllDigitChars(cs, c + f + 3, Len(cs))

MaxTokenLen == 3 * MaxDigits + 2

\* The places <<i, j>> at or after from where cs[i..j] has the shape of a token.
TokenSpans(cs, from) ==
    {ij \in (from..Len(cs)) \X (from..Len(cs)) :
        /\ ij[1] < ij[2]
        /\ ij[2] - ij[1] < MaxTokenLen
        /\ TokenShape(SubSeq(cs, ij[1], ij[2]))}

\* The leftmost of them, and the longest of those that start there.
LeftmostSpan(cs, from) ==
    CHOOSE ij \in TokenSpans(cs, from) :
        \A kl \in TokenSpans(cs, from) :
            ij[1] < kl[1] \/ (ij[1] = kl[1] /\ ij[2] >= kl[2])

HasToken(str) == TokenSpans(Chars(str), 1) # {}

LeftmostToken(str) ==
    LET cs == Chars(str)
    IN Str(SubSeq(cs, LeftmostSpan(cs, 1)[1], LeftmostSpan(cs, 1)[2]))

\* The decimal value of a run of digits, last digit first.
RECURSIVE Decimal(_)
Decimal(cs) ==
    IF cs = <<>> THEN 0
    ELSE 10 * Decimal(SubSeq(cs, 1, Len(cs) - 1)) + DigitVal(cs[Len(cs)])

\* The three numbers a token spells.
DPos(cs) == CHOOSE k \in 1..Len(cs) : cs[k] \in {"d", "D"}

SignPos(cs) ==
    IF \E k \in 1..Len(cs) : cs[k] \in {"+", "-"}
    THEN CHOOSE k \in 1..Len(cs) : cs[k] \in {"+", "-"}
    ELSE Len(cs) + 1

TokenCount(tok) == Decimal(SubSeq(Chars(tok), 1, DPos(Chars(tok)) - 1))

TokenFaces(tok) ==
    Decimal(SubSeq(Chars(tok), DPos(Chars(tok)) + 1, SignPos(Chars(tok)) - 1))

TokenModifier(tok) ==
    LET cs == Chars(tok)
        n == Decimal(SubSeq(cs, SignPos(cs) + 1, Len(cs)))
    IN IF SignPos(cs) > Len(cs) THEN 0
       ELSE IF cs[SignPos(cs)] = "-" THEN 0 - n ELSE n

RECURSIVE SumOf(_)
SumOf(ns) == IF ns = <<>> THEN 0 ELSE Head(ns) + SumOf(Tail(ns))

RollOps == {"RollOne", "Roll", "RollTotal", "RollDetails"}

BatchOps == {"Roll", "RollTotal", "RollDetails"}

\* A string the Simulator can roll: its first match has at least one die
\* and at least one face.
ValidRoll(str) ==
    /\ HasToken(str)
    /\ TokenCount(LeftmostToken(str)) >= 1
    /\ TokenFaces(LeftmostToken(str)) >= 1

\* The record d is a roll of the token tok.
IsRollOf(d, tok) ==
    /\ d.Rolls = TokenCount(tok)
    /\ d.Faces = TokenFaces(tok)
    /\ d.Modifier = TokenModifier(tok)
    /\ Len(d.Results) = TokenCount(tok)
    /\ \A k \in 1..Len(d.Results) : d.Results[k] \in 1..TokenFaces(tok)
    /\ d.Total = SumOf(d.Results) + d.Modifier

\* C1: when every string given to RollDetails has a first match N d F with
\* N >= 1 and F >= 1, the call returns one record per string, and record i
\* has Rolls = N, Faces = F, Modifier = M (0 when absent), N results each in
\* 1..F, and Total = the sum of the results plus the modifier, whatever the
\* generator yields.
C1_RollDetailsRecord ==
    (op = "RollDetails" /\ \A i \in 1..Len(input) : ValidRoll(input[i]))
    => /\ pc = "returned"
       /\ err = "nil"
       /\ Len(details) = Len(input)
       /\ \A i \in 1..Len(input) : IsRollOf(details[i], LeftmostToken(input[i]))

C1_Witness ==
    /\ op = "RollDetails"
    /\ pc = "returned"
    /\ input = <<"2d3+1">>
    /\ details[1].Results = <<3, 1>>
    /\ details[1].Total = 5

\* C2: a Simulator call whose first string has no match of the grammar
\* returns a non-nil error to the caller.
C2_NoMatchError ==
    (op \in RollOps /\ Len(input) >= 1 /\ ~HasToken(input[1]))
    => (pc = "returned" /\ err # "nil")

\* C3: a Simulator call whose first string's match has zero faces returns a
\* non-nil error, and the generator is never asked for a value with bound 0.
C3_InvalidDiceError ==
    (op \in RollOps /\ Len(input) >= 1 /\ HasToken(input[1])
        /\ TokenFaces(LeftmostToken(input[1])) = 0)
    => /\ pc = "returned"
       /\ err # "nil"
       /\ \A k \in 1..Len(asked) : asked[k] # 0

\* A token the specification calls failing: no match, or zero faces.
FailingToken(str) == ~HasToken(str) \/ TokenFaces(LeftmostToken(str)) = 0

FirstFailing(ins) ==
    CHOOSE k \in 1..Len(ins) :
        FailingToken(ins[k]) /\ \A j \in 1..(k - 1) : ~FailingToken(ins[j])

\* The dice of the strings ins[1..n].
RECURSIVE DiceOf(_, _)
DiceOf(ins, n) ==
    IF n = 0 THEN 0 ELSE DiceOf(ins, n - 1) + TokenCount(LeftmostToken(ins[n]))

\* C4: a batch call with a failing token, the first at k, returns a non-nil
\* error with the results of tokens 1..k-1 only (k-1 totals for Roll, k-1
\* records for RollDetails), having rolled the dice of tokens 1..k-1 only.
C4_FailFastPartial ==
    (op \in BatchOps /\ \E k \in 1..Len(input) : FailingToken(input[k]))
    => /\ pc = "returned"
       /\ err # "nil"
       /\ op = "Roll" => Len(totals) = FirstFailing(input) - 1
       /\ op = "RollDetails" => Len(details) = FirstFailing(input) - 1
       /\ Len(asked) = DiceOf(input, FirstFailing(input) - 1)

\* A token whose dice can be drawn: it has a face, or it has no die at all.
Drawable(tok) == TokenFaces(tok) >= 1 \/ TokenCount(tok) = 0

\* C5: the Simulator rolls the first (leftmost) match of each string and
\* nothing else of it: every record RollDetails returns has DiscoveredRoll
\* equal to that matched substring, with its count, faces and modifier, the
\* characters around the match ignored; a call whose matches can all be drawn
\* returns one record per string and makes exactly their dice's draws; and
\* RollDetails("4d8/2") returns DiscoveredRoll "4d8", Rolls 4, Faces 8,
\* Modifier 0.
C5_FirstMatchOnly ==
    op = "RollDetails" =>
       /\ \A i \in 1..Len(details) :
            /\ HasToken(input[i])
            /\ details[i].DiscoveredRoll = LeftmostToken(input[i])
            /\ details[i].Rolls = TokenCount(LeftmostToken(input[i]))
            /\ details[i].Faces = TokenFaces(LeftmostToken(input[i]))
            /\ details[i].Modifier = TokenModifier(LeftmostToken(input[i]))
       /\ (\A i \in 1..Len(input) :
              HasToken(input[i]) /\ Drawable(LeftmostToken(input[i])))
          => /\ pc = "returned"
             /\ err = "nil"
             /\ Len(details) = Len(input)
             /\ Len(asked) = DiceOf(input, Len(input))
       /\ input = <<"4d8/2">>
          => /\ pc = "returned"
             /\ details[1].DiscoveredRoll = "4d8"
             /\ details[1].Rolls = 4
             /\ details[1].Faces = 8
             /\ details[1].Modifier = 0

C5_Witness ==
    /\ op = "RollDetails"
    /\ pc = "returned"
    /\ input = <<"4d8/2">>
    /\ details[1].DiscoveredRoll = "4d8"
    /\ Len(details[1].Results) = 4

ZeroCount(str) == HasToken(str) /\ TokenCount(LeftmostToken(str)) = 0

\* C6: a Simulator call whose strings all have count 0 returns without
\* error and without a draw; each record has no results and each total is
\* the token's modifier (0 when it has none).
C6_ZeroCount ==
    (op \in RollOps /\ Len(input) >= 1 /\ \A i \in 1..Len(input) : ZeroCount(input[i]))
    => /\ pc = "returned"
       /\ err = "nil"
       /\ asked = <<>>
       /\ op = "RollOne" => total = TokenModifier(LeftmostToken(input[1]))
       /\ op = "Roll" =>
            totals = [i \in 1..Len(input) |-> TokenModifier(LeftmostToken(input[i]))]
       /\ op = "RollTotal" =>
            total = SumOf([i \in 1..Len(input) |->
                             TokenModifier(LeftmostToken(input[i]))])
       /\ op = "RollDetails" =>
            /\ Len(details) = Len(input)
            /\ \A i \in 1..Len(input) :
                 /\ details[i].Results = <<>>
                 /\ details[i].Total = TokenModifier(LeftmostToken(input[i]))

C6_Witness ==
    /\ op = "RollDetails"
    /\ pc = "returned"
    /\ input = <<"0d6-2">>
    /\ details[1].Results = <<>>
    /\ details[1].Total = 0 - 2
    /\ asked = <<>>

\* ----------------------------------------------------- the Extractor's claims
Blank == {" ", "\t", "\n"}

\* A text without its spaces, tabs and line endings.
RECURSIVE DropBlanks(_)
DropBlanks(cs) ==
    IF cs = <<>> THEN <<>>
    ELSE IF Head(cs) \in Blank THEN DropBlanks(Tail(cs))
    ELSE <<Head(cs)>> \o DropBlanks(Tail(cs))

\* The tokens of cs from position from on: the leftmost, longest one, then
\* those after its end.
RECURSIVE TokensFrom(_, _)
TokensFrom(cs, from) ==
    IF TokenSpans(cs, from) = {} THEN <<>>
    ELSE <<Str(SubSeq(cs, LeftmostSpan(cs, from)[1], LeftmostSpan(cs, from)[2]))>>
         \o TokensFrom(cs, LeftmostSpan(cs, from)[2] + 1)

TokensOf(str) == TokensFrom(DropBlanks(Chars(str)), 1)

RECURSIVE TokensOfAll(_)
TokensOfAll(texts) ==
    IF texts = <<>> THEN <<>>
    ELSE TokensOf(Head(texts)) \o TokensOfAll(Tail(texts))

InsertAt(cs, p, c) == SubSeq(cs, 1, p) \o <<c>> \o SubSeq(cs, p + 1, Len(cs))

DeleteAt(cs, p) == SubSeq(cs, 1, p - 1) \o SubSeq(cs, p + 1, Len(cs))

\* C7: Parse of one string is unchanged by inserting a space, a tab or a
\* newline at any position and by deleting any one of them; and "2d6",
\* "2 d 6", "2<TAB>d<TAB>6" and "2<NL>d<NL>6" all give ["2d6"].
C7_WhitespaceInvariant ==
    (op = "Parse" /\ Len(input) = 1)
    => /\ \A p \in 0..Len(input[1]) : \A w \in Blank :
            parse(Str(InsertAt(Chars(input[1]), p, w))) = tokens
       /\ \A p \in 1..Len(input[1]) :
            Chars(input[1])[p] \in Blank
            => parse(Str(DeleteAt(Chars(input[1]), p))) = tokens
       /\ parse(Str(DropBlanks(Chars(input[1])))) = tokens
       /\ input[1] \in {"2d6", "2 d 6", "2\td\t6", "2\nd\n6"} => tokens = <<"2d6">>

C7_Witness ==
    /\ op = "Parse"
    /\ pc = "returned"
    /\ input = <<"2\td\t6">>
    /\ tokens = <<"2d6">>

\* C8: Parse always returns a nil error, and its tokens are, string by string
\* in input order, the non-overlapping matches of the string without its
\* whitespace, left to right; so Parse(a, b) = Parse(a) ++ Parse(b), text is
\* never joined across two strings, and a string without a match adds nothing.
C8_ParseConcatenates ==
    op = "Parse"
    => /\ pc = "returned"
       /\ err = "nil"
       /\ tokens = TokensOfAll(input)
       /\ Len(input) = 2 => tokens = parse(input[1]) \o parse(input[2])

C8_Witness ==
    /\ op = "Parse"
    /\ pc = "returned"
    /\ input = <<"2 D 8-3", "2d6">>
    /\ tokens = <<"2D8-3", "2d6">>

\* The digits of a token before its d or D.
CountText(tok) == SubSeq(tok, 1, DPos(Chars(tok)) - 1)

\* C9: Parse("1d6 2d8") is ["1d62"], one merged token, while "1d6, 2d8" and
\* "1d6 and 2d8" both give ["1d6", "2d8"]; and so for every two short rolls
\* x and y: with only whitespace between them the one token is x followed by
\* the count of y, with anything else between them the tokens are x and y.
C9_MergedToken ==
    op = "Parse"
    => /\ input = <<"1d6 2d8">> => tokens = <<"1d62">>
       /\ input = <<"1d6, 2d8">> => tokens = <<"1d6", "2d8">>
       /\ input = <<"1d6 and 2d8">> => tokens = <<"1d6", "2d8">>
       /\ \A x \in ShortRolls, y \in ShortRolls :
            /\ \A g \in Gaps :
                 input = <<x \o g \o y>> => tokens = <<x \o CountText(y)>>
            /\ \A s \in Separators :
                 input = <<x \o s \o y>> => tokens = <<x, y>>

C9_Witness ==
    /\ op = "Parse"
    /\ pc = "returned"
    /\ input = <<"1d6 2d8">>
    /\ tokens = <<"1d62">>

\* The tokens joined by ", ".
RECURSIVE JoinComma(_)
JoinComma(ts) ==
    IF ts = <<>> THEN ""
    ELSE IF Len(ts) = 1 THEN ts[1]
    ELSE ts[1] \o ", " \o JoinComma(Tail(ts))

\* str[i..j] is the text sub for some i, j.
OccursIn(sub, str) ==
    \E i \in 1..Len(str) :
        i + Len(sub) - 1 <= Len(str) /\ SubSeq(str, i, i + Len(sub) - 1) = sub

\* C10: every token Parse returns is found again, alone and whole, by Parse
\* of that token; it stands character for character (d or D as written) in
\* one of the texts without its whitespace; and Parse of the tokens joined
\* by ", " returns the same tokens.
C10_ParseIdempotent ==
    op = "Parse"
    => /\ \A k \in 1..Len(tokens) :
            /\ parse(tokens[k]) = <<tokens[k]>>
            /\ \E i \in 1..Len(input) :
                 OccursIn(tokens[k], Str(DropBlanks(Chars(input[i]))))
       /\ parse(JoinComma(tokens)) = tokens
       /\ input = <<"2D6 and 2 D 8">> => tokens = <<"2D6", "2D8">>

C10_Witness ==
    /\ op = "Parse"
    /\ pc = "returned"
    /\ input = <<"2D6 and 2 D 8">>
    /\ tokens = <<"2D6", "2D8">>

\* ----------------------------------------------------- the Formatter's claims
ShortOps == {"Prettify", "PrettifyOne", "PrettifyHTML"}

FullOps == {"PrettifyFull", "PrettifyOneFull", "PrettifyHTMLFull"}

HTMLOps == {"PrettifyHTML", "PrettifyHTMLFull"}

OneOps == {"PrettifyOne", "PrettifyOneFull"}

PrettyOps == ShortOps \cup FullOps

StartsWith(str, pre) == Len(pre) <= Len(str) /\ SubSeq(str, 1, Len(pre)) = pre

EndsWith(str, suf) ==
    Len(suf) <= Len(str) /\ SubSeq(str, Len(str) - Len(suf) + 1, Len(str)) = suf

\* A natural number in decimal, and an integer with its minus sign.
RECURSIVE Numeral(_)
Numeral(n) ==
    LET last == CHOOSE c \in DigitChars : DigitVal(c) = n % 10
    IN IF n < 10 THEN last ELSE Numeral(n \div 10) \o last

SignedNumeral(n) == IF n < 0 THEN "-" \o Numeral(0 - n) ELSE Numeral(n)

\* The results of a record joined by " + ".
RECURSIVE JoinPlus(_)
JoinPlus(rs) ==
    IF rs = <<>> THEN ""
    ELSE IF Len(rs) = 1 THEN SignedNumeral(rs[1])
    ELSE SignedNumeral(rs[1]) \o " + " \o JoinPlus(Tail(rs))

\* The total a rendering shows: the results and the modifier.
ShownTotal(r) == SumOf(r.Results) + r.Modifier

SingleDie(r) == Len(r.Results) = 1 /\ r.Modifier = 0

\* A record whose discovered roll is not a token but a text with ": " in it.
Captioned(r) == OccursIn(": ", r.DiscoveredRoll)

\* What the HTML variants put after the rendering of r.
Closer(o, r) ==
    IF o = "PrettifyHTML" THEN "</strong>"
    ELSE IF o = "PrettifyHTMLFull" THEN "</em>"
    ELSE ""

\* The records whose rendering reaches the output whole: all of them, but the
\* captioned ones under PrettifyHTMLFull.
Whole(o, r) == ~(o = "PrettifyHTMLFull" /\ Captioned(r))

\* C11: every Prettify variant ends the rendering of a record with
\* " = <total>" unless the record has exactly one result and modifier 0, in
\* which case the rendering ends with the bare result; a record with no
\* result and modifier 0 gets " = 0", results [6] with modifier 0 render as
\* "6", and results [2] with modifier -1 as "2 (-1) = 1".
C11_TotalSuffix ==
    op \in PrettyOps =>
        \A i \in 1..Len(records) :
            Whole(op, records[i]) =>
                /\ ~SingleDie(records[i]) =>
                     EndsWith(pretty[i],
                              " = " \o SignedNumeral(ShownTotal(records[i]))
                                    \o Closer(op, records[i]))
                /\ SingleDie(records[i]) =>
                     /\ EndsWith(pretty[i],
                                 SignedNumeral(records[i].Results[1])
                                     \o Closer(op, records[i]))
                     /\ ~OccursIn(" = ", pretty[i])
                /\ op \in {"Prettify", "PrettifyOne"} =>
                     /\ (records[i].Results = <<6>> /\ records[i].Modifier = 0)
                          => pretty[i] = "6"
                     /\ (records[i].Results = <<2>> /\ records[i].Modifier = 0 - 1)
                          => pretty[i] = "2 (-1) = 1"
                     /\ (records[i].Results = <<>> /\ records[i].Modifier = 0)
                          => pretty[i] = " = 0"

\* The suffix for the modifier m.
ModSuffix(m) ==
    IF m = 0 THEN ""
    ELSE IF m > 0 THEN " (+" \o Numeral(m) \o ")"
    ELSE " (-" \o Numeral(0 - m) \o ")"

\* C12: in every Prettify variant the rendering of a record is its results
\* joined by " + ", then the modifier suffix, then the total or nothing; the
\* suffix is nothing for modifier 0 (also of a token written +0 or -0),
\* " (+M)" for M > 0 and " (-|M|)" for M < 0, for modifiers from -99999 to
\* 99999.
C12_ModifierSuffix ==
    op \in PrettyOps =>
        \A i \in 1..Len(records) :
            (Whole(op, records[i]) /\ records[i].Modifier \in (0 - 99999)..99999) =>
                /\ \E tail \in {"", " = " \o SignedNumeral(ShownTotal(records[i]))} :
                     /\ EndsWith(pretty[i],
                                 JoinPlus(records[i].Results)
                                     \o ModSuffix(records[i].Modifier)
                                     \o tail \o Closer(op, records[i]))
                     /\ op \in {"Prettify", "PrettifyOne"} =>
                          pretty[i] = JoinPlus(records[i].Results)
                                          \o ModSuffix(records[i].Modifier) \o tail
                /\ records[i].Modifier = 0 => ~OccursIn("(", pretty[i])
                /\ records[i].Modifier = 4 => OccursIn(" (+4)", pretty[i])
                /\ records[i].Modifier = 0 - 2 => OccursIn(" (-2)", pretty[i])
                /\ records[i].Modifier = 0 - 99999 => OccursIn(" (-99999)", pretty[i])
                /\ records[i].DiscoveredRoll \in {"1d4+0", "1d4-0"} =>
                     records[i].Modifier = 0

C12_Witness ==
    /\ op = "PrettifyHTMLFull"
    /\ pc = "returned"
    /\ input = <<"1d2+99999", "2D2-99999">>
    /\ pretty = <<"<strong>1d2+99999:</strong> <em>2 (+99999) = 100001</em>",
                  "<strong>2d2-99999:</strong> <em>1 + 2 (-99999) = -99996</em>">>

\* The first place where ": " stands in str.
FirstColon(str) ==
    CHOOSE p \in 1..Len(str) :
        /\ SubSeq(str, p, p + 1) = ": "
        /\ \A q \in 1..(p - 1) : SubSeq(str, q, q + 1) # ": "

\* The wrapping of one rendered string.
Wrapped(str) ==
    IF ~OccursIn(": ", str) THEN "<strong>" \o str \o "</strong>"
    ELSE "<strong>" \o SubSeq(str, 1, FirstColon(str) - 1) \o ":</strong> <em>"
         \o SubSeq(str, FirstColon(str) + 2, Len(str)) \o "</em>"

\* C13: PrettifyHTML and PrettifyHTMLFull wrap each rendered string: without
\* ": " it becomes <strong>s</strong>; with ": " it is split at the first
\* one only, <strong>left:</strong> <em>right</em>, right being all that
\* follows the first ": ", so that no character of the string is lost.
C13_HTMLWrap ==
    op \in HTMLOps =>
        \A i \in 1..Len(records) :
            pretty[i] = Wrapped(prettify(records[i], op \in FullOps))

\* C16: the batch variants return one string per record, the i-th rendered
\* from the i-th record (none for none); no Formatter call fails; and every
\* variant leaves the caller's records and the generator as they were.
C16_FormatterPure ==
    [][(HasRecords /\ op' \in PrettyOps) =>
          /\ pc' = "returned"
          /\ fault' = "none"
          /\ details' = details
          /\ random' = random
          /\ op' \notin OneOps =>
               /\ records' = details
               /\ Len(pretty') = Len(details)
               /\ \A i \in 1..Len(details) :
                    pretty'[i] =
                        IF op' \in HTMLOps
                        THEN addHTMLOne(prettify(details[i], op' \in FullOps))
                        ELSE prettify(details[i], op' \in FullOps)
          /\ op' \in OneOps =>
               \E i \in 1..Len(details) :
                    /\ records' = <<details[i]>>
                    /\ pretty' = <<prettify(details[i], op' \in FullOps)>>
      ]_vars

C16_Witness ==
    /\ op = "PrettifyFull"
    /\ pc = "returned"
    /\ input = <<"4d6+4", "8D4", "4d4", "4d6", "1d20+3">>
    /\ Len(pretty) = 5
    /\ records = details
    /\ StartsWith(pretty[2], "8d4: ")
    /\ StartsWith(pretty[5], "1d20+3: ")

\* The lowercase of an ASCII text.
LowerOf(c) ==
    CASE c = "A" -> "a" [] c = "B" -> "b" [] c = "C" -> "c" [] c = "D" -> "d"
      [] c = "E" -> "e" [] c = "F" -> "f" [] c = "G" -> "g" [] c = "H" -> "h"
      [] c = "I" -> "i" [] c = "J" -> "j" [] c = "K" -> "k" [] c = "L" -> "l"
      [] c = "M" -> "m" [] c = "N" -> "n" [] c = "O" -> "o" [] c = "P" -> "p"
      [] c = "Q" -> "q" [] c = "R" -> "r" [] c = "S" -> "s" [] c = "T" -> "t"
      [] c = "U" -> "u" [] c = "V" -> "v" [] c = "W" -> "w" [] c = "X" -> "x"
      [] c = "Y" -> "y" [] c = "Z" -> "z" [] OTHER -> c

RECURSIVE LowerCase(_)
LowerCase(str) ==
    IF str = "" THEN ""
    ELSE LowerOf(SubSeq(str, 1, 1)) \o LowerCase(SubSeq(str, 2, Len(str)))

\* C17: PrettifyOneFull(r) is the lowercased discovered roll of r, ": ", and
\* PrettifyOne(r); PrettifyFull is so element by element against Prettify;
\* and a record discovered as "2D6" is echoed as "2d6: ...".
C17_FullIsShortWithSource ==
    op \in {"PrettifyOneFull", "PrettifyFull"} =>
        /\ Len(pretty) = Len(records)
        /\ \A i \in 1..Len(records) :
             /\ pretty[i] = LowerCase(records[i].DiscoveredRoll) \o ": "
                                \o prettify(records[i], FALSE)
             /\ op = "PrettifyFull" =>
                  pretty[i] = LowerCase(records[i].DiscoveredRoll) \o ": "
                                  \o PrettifyEach(records, FALSE)[i]
             /\ records[i].DiscoveredRoll = "2D6" => StartsWith(pretty[i], "2d6: ")

C17_Witness ==
    /\ op = "PrettifyOneFull"
    /\ pc = "returned"
    /\ input = <<"2D6", "2D8">>
    /\ records[1].DiscoveredRoll = "2D6"
    /\ records[1].Results = <<1, 4>>
    /\ pretty = <<"2d6: 1 + 4 = 5">>

\* ------------------------------------------------------- the order of draws
\* The k-th value a generator standing at the cycle rnd yields for n faces.
DrawAt(rnd, k, n) == (rnd[((k - 1) % Len(rnd)) + 1] * n) \div RawMax + 1

\* The results and the total token i of ins is due when the call starts with
\* the generator at rnd: its dice are the next after those of tokens 1..i-1.
DueResults(rnd, ins, i) ==
    LET before == SumOf([k \in 1..(i - 1) |-> TokenCount(ins[k])])
        faces == TokenFaces(ins[i])
    IN [j \in 1..TokenCount(ins[i]) |-> DrawAt(rnd, before + j, faces)]

DueTotal(rnd, ins, i) == SumOf(DueResults(rnd, ins, i)) + TokenModifier(ins[i])

\* The generator at rnd yields the draws 1, 2 for six faces, then 3, 2, 3, 4
\* for four.
YieldsTestDraws(rnd) ==
    \A k \in 1..Len(TestDraws) : DrawAt(rnd, k, TestFaces[k]) = TestDraws[k]

\* C14: a call that starts with the generator at a given point uses its
\* values strictly in order: record i holds the next count_i draws after
\* those of tokens 1..i-1, Roll returns the totals of those records,
\* RollTotal their sum, RollOne the one total, and the generator ends past
\* exactly those draws; with draws 1, 2 then 3, 2, 3, 4 the tokens "2d6",
\* "4d4+4" total 3 and 16, and RollTotal gives 19.
C14_DrawsInOrder ==
    [][(pc = "idle" /\ op' \in RollOps
            /\ \A i \in 1..Len(input') : input'[i] \in OrderTokens) =>
          /\ pc' = "returned"
          /\ Len(asked') = SumOf([k \in 1..Len(input') |-> TokenCount(input'[k])])
          /\ \A k \in 1..Len(random) :
               random'[k] = random[((k - 1 + Len(asked')) % Len(random)) + 1]
          /\ op' = "RollDetails" =>
               /\ Len(details') = Len(input')
               /\ \A i \in 1..Len(input') :
                    /\ details'[i].Results = DueResults(random, input', i)
                    /\ details'[i].Total = DueTotal(random, input', i)
          /\ op' = "Roll" =>
               totals' = [i \in 1..Len(input') |-> DueTotal(random, input', i)]
          /\ op' = "RollTotal" =>
               total' = SumOf([i \in 1..Len(input') |-> DueTotal(random, input', i)])
          /\ op' = "RollOne" => total' = DueTotal(random, input', 1)
          /\ (YieldsTestDraws(random) /\ input' = <<"2d6", "4d4+4">>) =>
               /\ op' = "RollDetails" =>
                    /\ details'[1].Results = <<1, 2>>
                    /\ details'[2].Results = <<3, 2, 3, 4>>
                    /\ details'[1].Total = 3
                    /\ details'[2].Total = 16
               /\ op' = "Roll" => totals' = <<3, 16>>
               /\ op' = "RollTotal" => total' = 19
      ]_vars

C14_Witness ==
    /\ op = "RollDetails"
    /\ pc = "returned"
    /\ input = <<"2d6", "4d4+4">>
    /\ details[1].Results = <<1, 2>>
    /\ details[2].Results = <<3, 2, 3, 4>>
    /\ details[1].Total = 3
    /\ details[2].Total = 16
    /\ Len(asked) = 6

\* ------------------------------------------------------ concurrent callers
\* The goroutines that have read the generator's state and not yet written
\* the advanced state back.
Drawing == {t \in Threads : threads[t].pc = "drawing"}

\* C15: when goroutines call the Simulator at the same time, their draws are
\* serialized: never are two of them inside the generator's state update.
C15_DrawsSerialized == Cardinality(Drawing) <= 1

\* ---------------------------------------------------------- the error value
\* A group of a match as the grammar has it: 1 to 5 digits.
DigitGroup(g) ==
    /\ Len(g) \in 1..MaxDigits
    /\ \A k \in 1..Len(g) : SubSeq(g, k, k) \in DigitChars

\* The three conversions of roll succeed on the groups g of a match.
ConvertsGroups(g) ==
    /\ DigitGroup(g[2])
    /\ Atoi(g[2]).err = "nil"
    /\ DigitGroup(g[3])
    /\ Atoi(g[3]).err = "nil"
    /\ g[4] # "" =>
         /\ SubSeq(g[4], 1, 1) \in {"+", "-"}
         /\ DigitGroup(SubSeq(g[4], 2, Len(g[4])))
         /\ Atoi(g[4]).err = "nil"

\* They succeed on every string that has a match.
Converts(str) ==
    \A g \in {FindStringSubmatch(str)} : g # <<>> => ConvertsGroups(g)

\* C18: on every string with a match the three conversions of the Simulator
\* succeed, so no Simulator call ever hands back a non-nil error, and a
\* batch call that returns never returns fewer results than it was given
\* strings: the early return with partial results is never taken.
C18_ErrorAlwaysNil ==
    op \in RollOps =>
        /\ err = "nil"
        /\ \A i \in 1..Len(input) :
             /\ Converts(input[i])
             /\ HasToken(input[i]) <=> FindStringSubmatch(input[i]) # <<>>
        /\ (pc = "returned" /\ op = "Roll") => Len(totals) = Len(input)
        /\ (pc = "returned" /\ op = "RollDetails") => Len(details) = Len(input)

C18_Witness ==
    /\ op = "RollDetails"
    /\ pc = "returned"
    /\ input = <<"0d99999-99999">>
    /\ err = "nil"
    /\ details[1].Faces = 99999
    /\ details[1].Modifier = 0 - 99999

\* -------------------------------------------------------------- the pipeline
\* C19: RollDetails called with what Parse returned, every token having at
\* least one face, returns without error one record per token, record i
\* with DiscoveredRoll equal to token i character for character and with
\* the token's count, faces and modifier.
C19_PipelineOneToOne ==
    [][(op = "Parse" /\ pc = "returned" /\ op' = "RollDetails"
            /\ \A k \in 1..Len(tokens) : TokenFaces(tokens[k]) >= 1) =>
          /\ input' = tokens
          /\ pc' = "returned"
          /\ err' = "nil"
          /\ Len(details') = Len(tokens)
          /\ \A k \in 1..Len(tokens) :
               /\ details'[k].DiscoveredRoll = tokens[k]
               /\ details'[k].Rolls = TokenCount(tokens[k])
               /\ details'[k].Faces = TokenFaces(tokens[k])
               /\ details'[k].Modifier = TokenModifier(tokens[k])
               /\ Len(details'[k].Results) = TokenCount(tokens[k])
      ]_vars

C19_Witness ==
    /\ op = "RollDetails"
    /\ pc = "returned"
    /\ input = <<"4d6+4", "8D4", "4d4", "4d6", "1d20+3">>
    /\ Len(details) = 5
    /\ details[2].DiscoveredRoll = "8D4"
    /\ details[2].Rolls = 8
    /\ details[5].Modifier = 3

\* ------------------------------------------------------------ long digit runs
\* cs is one roll and nothing else: digits, d or D, digits, and optionally a
\* sign and digits, each run of any length.
Isolated(cs) ==
    \E k \in 2..(Len(cs) - 1) :
        /\ cs[k] \in {"d", "D"}
        /\ AllDigitChars(cs, 1, k - 1)
        /\ \/ AllDigitChars(cs, k + 1, Len(cs))
           \/ \E q \in (k + 2)..(Len(cs) - 1) :
                /\ cs[q] \in {"+", "-"}
                /\ AllDigitChars(cs, k + 1, q - 1)
                /\ AllDigitChars(cs, q + 1, Len(cs))

\* The last five characters of a run, and the first five.
LastFive(cs) ==
    IF Len(cs) <= MaxDigits THEN cs ELSE SubSeq(cs, Len(cs) - MaxDigits + 1, Len(cs))

FirstFive(cs) == IF Len(cs) <= MaxDigits THEN cs ELSE SubSeq(cs, 1, MaxDigits)

\* The token of an isolated roll: the count cut to its last five digits, the
\* faces to their first five, and the modifier, which stands only next to
\* faces that were not cut, to its first five.
CutToken(cs) ==
    Str(LastFive(SubSeq(cs, 1, DPos(cs) - 1)))
        \o cs[DPos(cs)]
        \o Str(FirstFive(SubSeq(cs, DPos(cs) + 1, SignPos(cs) - 1)))
        \o (IF SignPos(cs) <= Len(cs) /\ SignPos(cs) - DPos(cs) - 1 <= MaxDigits
            THEN cs[SignPos(cs)] \o Str(FirstFive(SubSeq(cs, SignPos(cs) + 1, Len(cs))))
            ELSE "")

\* C20: Parse never fails on a long digit run and never returns one: every
\* token has a count, faces and modifier of 1 to 5 digits; of a roll standing
\* alone, a longer count keeps its last 5 digits, longer faces or a longer
\* modifier their first 5, and the other digits are dropped, so that
\* Parse("123456d6") is ["23456d6"] and Parse("2d123456") is ["2d12345"].
C20_LongRunsCut ==
    op = "Parse" =>
        /\ pc = "returned"
        /\ err = "nil"
        /\ \A k \in 1..Len(tokens) : TokenShape(Chars(tokens[k]))
        /\ (Len(input) = 1 /\ Isolated(Chars(input[1]))) =>
             tokens = <<CutToken(Chars(input[1]))>>
        /\ input = <<"123456d6">> => tokens = <<"23456d6">>
        /\ input = <<"2d123456">> => tokens = <<"2d12345">>
        /\ input = <<"2d6+123456">> => tokens = <<"2d6+12345">>

C20_Witness ==
    /\ op = "Parse"
    /\ pc = "returned"
    /\ input = <<"1234567D7654321+1234567">>
    /\ tokens = <<"34567D76543">>
    /\ err = "nil"

\* ------------------------------------------------------ rolls joined by a sign
\* cs is AdB+CdD or AdB-CdD for digits A, B, C, D.
JoinedShape(cs) ==
    /\ Len(cs) = 7
    /\ \A k \in {1, 3, 5, 7} : cs[k] \in DigitChars
    /\ cs[2] \in {"d", "D"}
    /\ cs[6] \in {"d", "D"}
    /\ cs[4] \in {"+", "-"}

\* C21: of two one-digit rolls joined by a sign, AdB+CdD, with or without
\* spaces around the sign, Parse returns the single token AdB+C: the
\* modifier takes the count of the second roll, the scan resumes at dD, which
\* matches nothing, and the second roll CdD is not returned; so for
\* "2d6+2d8" and "2d6 + 2d8", which give ["2d6+2"].
C21_ModifierSwallowsCount ==
    (op = "Parse" /\ Len(input) = 1 /\ JoinedShape(DropBlanks(Chars(input[1])))) =>
        /\ tokens = <<Str(SubSeq(DropBlanks(Chars(input[1])), 1, 5))>>
        /\ \A k \in 1..Len(tokens) :
             tokens[k] # Str(SubSeq(DropBlanks(Chars(input[1])), 5, 7))
        /\ parseUnstripped(Str(SubSeq(DropBlanks(Chars(input[1])), 6, 7))) = <<>>
        /\ input[1] \in {"2d6+2d8", "2d6 + 2d8"} => tokens = <<"2d6+2">>

C21_Witness ==
    /\ op = "Parse"
    /\ pc = "returned"
    /\ input = <<"2d6 + 2d8">>
    /\ tokens = <<"2d6+2">>

====
